---- MODULE Spec2Model ----
(***************************************************************************)
(* A model of favvocoaster's LikedSongsWatcher (watcher.py) together with  *)
(* the default rule engine (rules.py) it consults and the streaming        *)
(* service port (base_client.py and the two clients) it calls.             *)
(*                                                                         *)
(* Tracks are the numbers 1..MaxTracks; track 1 is a solo track of artist  *)
(* 1 and track t > 1 is a collaboration of the artists t-1 and t; the user *)
(* likes them in that order, at any moment between two polls.  The         *)
(* watcher is single threaded: `frames' is its call stack and `pc' the     *)
(* position inside the innermost call.  Every remote call is one step      *)
(* whose answer is drawn from what the port can answer.  `ev' describes    *)
(* what the last step did; the three logs record the remote calls and the  *)
(* callback invocations of the process_new_track call in progress (or      *)
(* just completed).                                                        *)
(***************************************************************************)
EXTENDS Integers, Sequences, FiniteSets, TLC

\* ------------------------------------------------------------------ bounds
MaxTracks == 3
TopTracksLimit == 2
MaxRules == 3

\* ------------------------------------------------------- program constants
RecentPollCount == 20
ResyncCount == 50
PageSize == 50
DefaultScanLimit == 500

\* ---------------------------------------------------------------- universe
Tracks == 1..MaxTracks
Artists == 1..MaxTracks
\* last_poll_time is None or the time of a poll; the times themselves play
\* no part in what the watcher does
NoTime == "None"
Times == {"time"}

TrackArtists(t) == IF t = 1 THEN <<1>> ELSE <<t - 1, t>>

Range(s) == {s[i] : i \in 1..Len(s)}

Min(a, b) == IF a <= b THEN a ELSE b

Take(s, n) == SubSeq(s, 1, Min(n, Len(s)))

\* Track.artist_ids
artist_ids(t) == Range(TrackArtists(t))

UserId == "u1"
Services == {"Spotify", "Tidal"}
NoFile == [exists |-> FALSE]

VARIABLES
    liked,                  \* the backend's liked list, newest first
    liked_before,           \* how many tracks were liked when the last
                            \* single-shot invocation ended
    enqueued,               \* what the backend's queue took: <<like, track>>
    top_requests,           \* the artists whose top tracks the backend
                            \* was asked for
    observed,               \* the backend's queue and requests are being
                            \* watched
    dry_run,                \* the shell was started with --dry-run
    service_name,           \* the client the shell constructed
    rules,                  \* the rule engine's _rules, in insertion order
    min_artists, skip_known_artists, known_artists_scan_limit,
    use_cache, on_scrape_triggered,
    known_artist_ids, seen_track_ids, running, last_poll_time,
    cache_file,             \* the snapshot on disk, or NoFile
    frames, pc,
    track, artists_to_scrape, ai, top_tracks, ci, queued_tracks,
    new_tracks, ti, all_queued,
    ev, top_calls, queue_calls, cb_calls

settingsVars == <<observed, top_requests, dry_run, liked_before, service_name, rules, min_artists,
                  skip_known_artists, known_artists_scan_limit,
                  use_cache, on_scrape_triggered>>
\* the settings stay as the shell made them
settingsKept ==
    UNCHANGED <<observed, dry_run, service_name, rules, min_artists,
                skip_known_artists, known_artists_scan_limit, use_cache,
                on_scrape_triggered>>
watcherVars == <<known_artist_ids, seen_track_ids, running, last_poll_time>>
processVars == <<track, artists_to_scrape, ai, top_tracks, ci, queued_tracks>>
runVars == <<new_tracks, ti, all_queued>>
logVars == <<top_calls, queue_calls, cb_calls>>
vars == <<liked, enqueued, settingsVars, watcherVars, cache_file, frames, pc,
          processVars, runVars, ev, logVars>>

\* ------------------------------------------------------------- rule engine
\* Artist.name
ArtistName(a) == <<"name", a>>

MoreThanMinimumArtists(t, min) == Len(TrackArtists(t)) > min

MinimumArtistsRule(t, min) == Len(TrackArtists(t)) >= min

NotAllArtistsKnown(t, known, skip) ==
    IF ~skip THEN TRUE ELSE ~(artist_ids(t) \subseteq known)

NoKnownArtistsRule(t, known, skip) ==
    IF ~skip THEN TRUE ELSE artist_ids(t) \cap known = {}

DefaultRules == <<"MinimumArtists", "NoKnownArtists">>

\* CustomPredicateRule objects, called after what their predicate does: it
\* returns True, returns False, or raises
CustomRules == {"Pass", "Fail", "Raise"}

\* rule.name (rules.py:51-53, 71-73, 104-106)
RuleName(name, min) ==
    IF name = "MinimumArtists" THEN <<name, ">=", min>> ELSE <<name>>

RaisingRulePasses(name, t, known, min, skip) ==
    IF name = "MinimumArtists" THEN MinimumArtistsRule(t, min)
    ELSE IF name = "NoKnownArtists" THEN NoKnownArtistsRule(t, known, skip)
    ELSE name \in {"Pass", "Raise"}

\* the first component of what rule.evaluate returns; a predicate that
\* raises makes it False (rules.py:113-115)
RulePasses(name, t, known, min, skip) ==
    IF name = "MinimumArtists" THEN MinimumArtistsRule(t, min)
    ELSE IF name = "NoKnownArtists" THEN NoKnownArtistsRule(t, known, skip)
    ELSE name = "Pass"

\* the second component of what rule.evaluate returns
RuleReason(name, t, known, min, skip) ==
    IF name = "MinimumArtists"
    THEN [text |-> IF MinimumArtistsRule(t, min) THEN "has" ELSE "has only",
          count |-> Len(TrackArtists(t)), min |-> min]
    ELSE IF name = "NoKnownArtists"
    THEN IF ~skip THEN [text |-> "check disabled"]
         ELSE IF artist_ids(t) \cap known # {}
         THEN [text |-> "already known",
               names |-> LET known_in_track ==
                                SelectSeq(TrackArtists(t),
                                          LAMBDA a : a \in artist_ids(t) \cap known)
                         IN [i \in 1..Len(known_in_track) |->
                                ArtistName(known_in_track[i])]]
         ELSE [text |-> "no known artists"]
    ELSE IF name = "Raise" THEN [text |-> "evaluation error"]
    ELSE [text |-> "description"]

\* the index of the first failing rule, 0 when every rule passes
FirstFailing(rs, t, known, min, skip) ==
    LET failing == {i \in 1..Len(rs) :
                        ~RulePasses(rs[i], t, known, min, skip)}
    IN IF failing = {} THEN 0
       ELSE CHOOSE i \in failing : \A j \in failing : i <= j

RunEveryRule(rs, i, t, known, min, skip) ==
    [evaluated |-> SubSeq(rs, i, Len(rs)),
     failed |-> FirstFailing(rs, t, known, min, skip)]

\* the loop of rules.py:198-207 from rule i on: the rules it evaluates, in
\* the order it evaluates them, and the index of the rule that made it
\* return (0 when it ran to its end)
RECURSIVE RunRules(_, _, _, _, _, _)
RunRules(rs, i, t, known, min, skip) ==
    IF i > Len(rs) THEN [evaluated |-> <<>>, failed |-> 0]
    ELSE IF ~RulePasses(rs[i], t, known, min, skip)
    THEN [evaluated |-> <<rs[i]>>, failed |-> i]
    ELSE LET rest == RunRules(rs, i + 1, t, known, min, skip)
         IN [evaluated |-> <<rs[i]>> \o rest.evaluated, failed |-> rest.failed]

UnknownArtistsOrFirst(t, known) ==
    IF TrackArtists(t)[1] \in known THEN <<TrackArtists(t)[1]>>
    ELSE SelectSeq(TrackArtists(t), LAMBDA a : a \notin known)

UnknownArtists(t, known) ==
    SelectSeq(TrackArtists(t), LAMBDA a : a \notin known)

AllArtists(t, known) == TrackArtists(t)

ArtistsToScrape(t, known) == UnknownArtists(t, known)

\* ScrapeRulesEngine.evaluate (rules.py:182-228)
Evaluate(t, known, min, skip) ==
    LET run == RunRules(rules, 1, t, known, min, skip)
        f == run.failed
        artists == ArtistsToScrape(t, known)
    IN IF f # 0
       THEN [should_scrape |-> FALSE,
             reason |-> [text |-> "rule failed",
                         rule |-> RuleName(rules[f], min),
                         reason |-> RuleReason(rules[f], t, known, min, skip)],
             artists_to_scrape |-> <<>>, evaluated |-> run.evaluated]
       ELSE IF artists = <<>>
       THEN [should_scrape |-> FALSE, reason |-> [text |-> "all known"],
             artists_to_scrape |-> <<>>, evaluated |-> run.evaluated]
       ELSE [should_scrape |-> TRUE,
             reason |-> [text |-> "all passed", count |-> Len(rules)],
             artists_to_scrape |-> artists, evaluated |-> run.evaluated]


\* ---------------------------------------------------- streaming service port
\* get_liked_songs(limit, offset) on a backend that answers
GetLikedSongs(limit, offset) ==
    IF offset >= Len(liked) THEN <<>>
    ELSE SubSeq(liked, offset + 1, Min(offset + limit, Len(liked)))

RECURSIVE AllPages(_, _, _)
AllPages(acc, offset, max_tracks) ==
    IF offset >= max_tracks THEN acc
    ELSE LET batch == GetLikedSongs(PageSize, offset)
         IN IF batch = <<>> THEN acc
            ELSE AllPages(acc \o batch, offset + PageSize, max_tracks)

GetAllLikedSongs(max_tracks) == Take(AllPages(<<>>, 0, max_tracks), max_tracks)

GetRecentlyLikedSongs(count) == GetLikedSongs(Min(count, PageSize), 0)

\* get_liked_songs(limit, offset) on a backend that puts at most `cap'
\* tracks in a page, whatever limit the client asks for
GetLikedSongsCapped(limit, offset, cap) == GetLikedSongs(Min(limit, cap), offset)

\* the loop of get_all_liked_songs (spotify_client.py:84-90,
\* tidal_client.py:215-221) on such a backend: the tracks gathered and the
\* number of get_liked_songs calls made; the offset moves on by batch_size
\* after every page that is not empty
RECURSIVE PagesFrom(_, _, _, _, _)
PagesFrom(acc, calls, offset, max_tracks, cap) ==
    IF offset >= max_tracks THEN [tracks |-> acc, calls |-> calls]
    ELSE LET batch == GetLikedSongsCapped(PageSize, offset, cap)
         IN IF batch = <<>> THEN [tracks |-> acc, calls |-> calls + 1]
            ELSE PagesFrom(acc \o batch, calls + 1, offset + PageSize,
                           max_tracks, cap)

\* get_all_liked_songs(max_tracks) on such a backend
GetAllLikedSongsCapped(max_tracks, cap) ==
    LET run == PagesFrom(<<>>, 0, 0, max_tracks, cap)
    IN [tracks |-> Take(run.tracks, max_tracks), calls |-> run.calls]

\* What get_liked_songs and the calls built on it can answer: the list; on a
\* failure the Tidal client answers an empty list (tidal_client.py:198-200)
\* and the Spotify client lets the exception through (spotify_client.py:68).
FetchAnswers(service, list) ==
    {[raised |-> FALSE, tracks |-> list]}
    \cup (IF service = "Tidal"
          THEN {[raised |-> FALSE, tracks |-> <<>>]}
          ELSE {[raised |-> TRUE, tracks |-> <<>>]})

\* The backend's ranking of an artist's tracks: artist a's own tracks a and
\* a + 1 first, then the rest of the catalogue.
TopTracksOf(a) == [i \in 1..MaxTracks |-> ((a + i - 2) % MaxTracks) + 1]

\* get_artist_top_tracks(artist_id, limit): at most `limit' tracks, fewer
\* when the backend has fewer, none on a failure
\* (spotify_client.py:118-126, tidal_client.py:254-260)
TopTrackAnswers(a, limit) ==
    {Take(TopTracksOf(a), n) : n \in 0..limit}

\* What can happen to the SDK call behind add_to_queue: it succeeds; there
\* is no active playback device (spotipy raises SpotifyException with status
\* 404, tidalapi has no playback object); the API refuses the call (another
\* SpotifyException, an error raised by tidalapi); the request does not get
\* through (a connection error or timeout of the HTTP library, which is no
\* SpotifyException); the SDK has no queue call (AttributeError, Tidal only)
QueueFaults(service) ==
    {"none", "no_device", "api_error", "transport_error"}
    \cup (IF service = "Tidal" THEN {"unsupported"} ELSE {})

\* add_to_queue of the client of `service' when the SDK call meets `fault'
\* (spotify_client.py:137-149: only SpotifyException is caught;
\* tidal_client.py:275-304: None playback, AttributeError and Exception all
\* end in False)
AddToQueue(service, fault) ==
    IF fault = "none" THEN "true"
    ELSE IF service = "Spotify" /\ fault = "transport_error" THEN "raise"
    ELSE "false"

\* what add_to_queue can answer its caller
QueueAnswers(service) ==
    {AddToQueue(service, fault) : fault \in QueueFaults(service)}

\* ------------------------------------------------------------------- cache
\* list(ids) as _save_cache writes it (watcher.py:99-100): every id once; the
\* order Python gives a set's elements plays no part for the reader, which
\* builds a set again, and the model writes them in ascending order
RECURSIVE ListOf(_)
ListOf(ids) ==
    IF ids = {} THEN <<>>
    ELSE LET m == CHOOSE x \in ids : \A y \in ids : x <= y
         IN <<m>> \o ListOf(ids \ {m})

SetOfFirst(list) == IF list = <<>> THEN {} ELSE {list[1]}

\* set(list) as _load_cache reads it (watcher.py:80-81)
SetOf(list) == Range(list)

\* the JSON document of watcher.py:96-102, without its time stamp
Snapshot(known, seen) ==
    [exists |-> TRUE, user_id |-> UserId, service |-> service_name,
     known_artist_ids |-> ListOf(known), seen_track_ids |-> ListOf(seen)]

\* The client has a service_name attribute: TidalClient defines the property
\* (tidal_client.py:33-35); SpotifyClient neither defines it nor inherits
\* MusicServiceClient (spotify_client.py:25), so reading it raises
\* AttributeError.
HasServiceName(service) == service = "Tidal"

\* _save_cache (watcher.py:93-107): the snapshot is written, the write taken
\* to succeed; an exception raised while the snapshot is put together
\* (watcher.py:98) is caught and logged, and the file stays as it was
SaveCache(known, seen) ==
    IF HasServiceName(service_name) THEN Snapshot(known, seen) ELSE cache_file

CacheLoadsAnyOwner ==
    /\ use_cache
    /\ cache_file.exists
    /\ HasServiceName(service_name)

\* _load_cache returns True (watcher.py:66-87); an exception raised by the
\* service comparison (watcher.py:76) is caught and makes it return False
CacheLoads ==
    /\ use_cache
    /\ cache_file.exists
    /\ cache_file.user_id = UserId
    /\ HasServiceName(service_name)
    /\ cache_file.service = service_name

OtherUserCache ==
    [exists |-> TRUE, user_id |-> "u2", service |-> "Spotify",
     known_artist_ids |-> <<1>>, seen_track_ids |-> <<1>>]

NoEvent == [type |-> "none"]

\* The watcher after construction (watcher.py:41-51), for settings whose
\* scan limit is one of limits and a cache file that is one of caches
SetupIn(limits, caches, modes) ==
    /\ liked = <<>>
    /\ liked_before = 0
    /\ top_requests = {}
    /\ dry_run \in modes
    /\ rules = DefaultRules
    /\ enqueued = {}
    /\ service_name \in Services
    /\ min_artists \in {1, 2}
    /\ skip_known_artists \in BOOLEAN
    /\ known_artists_scan_limit \in limits
    /\ use_cache \in BOOLEAN
    /\ on_scrape_triggered \in BOOLEAN
    /\ known_artist_ids = {}
    /\ seen_track_ids = {}
    /\ running = FALSE
    /\ last_poll_time = NoTime
    /\ cache_file \in caches
    /\ frames = <<>>
    /\ pc = "idle"
    /\ track = 0 /\ artists_to_scrape = <<>> /\ ai = 0
    /\ top_tracks = <<>> /\ ci = 0 /\ queued_tracks = <<>>
    /\ new_tracks = <<>> /\ ti = 0 /\ all_queued = <<>>
    /\ ev = NoEvent
    /\ top_calls = <<>> /\ queue_calls = <<>> /\ cb_calls = <<>>

\* the same, started without --dry-run
SetupWith(limits, caches) == SetupIn(limits, caches, {FALSE})

Setup == SetupWith({DefaultScanLimit}, {NoFile, OtherUserCache})

Init == Setup /\ observed = FALSE

\* the same watcher, with the backend's queue watched
InitQueue == Setup /\ observed = TRUE


\* ---------------------------------------------------------------- plumbing
ClearLogs == top_calls' = <<>> /\ queue_calls' = <<>> /\ cb_calls' = <<>>

ResetProcessVars ==
    /\ track' = 0 /\ artists_to_scrape' = <<>> /\ ai' = 0
    /\ top_tracks' = <<>> /\ ci' = 0 /\ queued_tracks' = <<>>

ResetRunVars == new_tracks' = <<>> /\ ti' = 0 /\ all_queued' = <<>>

\* the innermost call is run_once (process_new_track was called by its loop)
InRunOnce == frames # <<>> /\ frames[Len(frames)] = "run_once"

InStart == frames # <<>> /\ frames[1] = "start"

Front(s) == SubSeq(s, 1, Len(s) - 1)

\* ------------------------------------------------------------- environment
\* the user likes the next track: the backend puts it first in the liked list
Like(t) ==
    /\ pc \in {"idle", "s_sleep"}
    /\ t = Len(liked) + 1
    /\ liked' = <<t>> \o liked
    /\ ev' = [type |-> "like", track |-> t]
    /\ ClearLogs
    /\ UNCHANGED enqueued
    /\ UNCHANGED <<settingsVars, watcherVars, cache_file, frames, pc,
                   processVars, runVars>>

\* ------------------------------------------------ build_known_artists_index
UnionArtists(ts) == UNION {artist_ids(t) : t \in ts}

WarmResyncAlwaysSaves(known0, seen0, recent) ==
    LET synced == {t \in Range(recent) : t \notin seen0}
    IN [known |-> known0 \cup UnionArtists(synced),
        seen |-> seen0 \cup synced,
        save |-> TRUE]

\* watcher.py:126-136, after _load_cache put (known0, seen0) in place
WarmResync(known0, seen0, recent) ==
    LET synced == {t \in Range(recent) : t \notin seen0}
    IN [known |-> known0 \cup UnionArtists(synced),
        seen |-> seen0 \cup synced,
        save |-> synced # {}]

ColdIndexResetsSeen(seen0, liked_songs) ==
    [known |-> UnionArtists(Range(liked_songs)),
     seen |-> Range(liked_songs),
     save |-> TRUE]

\* watcher.py:143-162
ColdIndex(seen0, liked_songs) ==
    [known |-> UnionArtists(Range(liked_songs)),
     seen |-> seen0 \cup Range(liked_songs),
     save |-> TRUE]

\* the state build_known_artists_index leaves, given the fetch's answer
BuildOutcome(ans) ==
    IF CacheLoads
    THEN IF ans.raised
         THEN [known |-> SetOf(cache_file.known_artist_ids),
               seen |-> SetOf(cache_file.seen_track_ids), save |-> FALSE]
         ELSE WarmResync(SetOf(cache_file.known_artist_ids),
                         SetOf(cache_file.seen_track_ids), ans.tracks)
    ELSE IF ans.raised
         THEN [known |-> known_artist_ids, seen |-> seen_track_ids,
               save |-> FALSE]
         ELSE ColdIndex(seen_track_ids, ans.tracks)

BuildFetch ==
    IF CacheLoads THEN GetRecentlyLikedSongs(ResyncCount)
    ELSE GetAllLikedSongs(known_artists_scan_limit)

BuildEffect(ans) ==
    LET out == BuildOutcome(ans)
    IN /\ known_artist_ids' = out.known
       /\ seen_track_ids' = out.seen
       /\ cache_file' = IF out.save THEN SaveCache(out.known, out.seen)
                        ELSE cache_file

BuildKnownArtistsIndex ==
    /\ pc = "idle"
    /\ \E ans \in FetchAnswers(service_name, BuildFetch) :
          /\ BuildEffect(ans)
          /\ ev' = [type |-> IF ans.raised THEN "build_raise" ELSE "build_return",
                    warm |-> CacheLoads, fetched |-> ans.tracks,
                    saved |-> BuildOutcome(ans).save,
                    found |-> use_cache /\ cache_file.exists,
                    from_empty |-> known_artist_ids = {} /\ seen_track_ids = {}]
    /\ ClearLogs
    /\ UNCHANGED <<liked, enqueued, settingsVars, running, last_poll_time, frames, pc,
                   processVars, runVars>>

\* ------------------------------------------------------ check_for_new_likes
CheckCount == RecentPollCount

NewTracksUnfiltered(recent, seen) == recent

\* watcher.py:179
NewTracks(recent, seen) == SelectSeq(recent, LAMBDA t : t \notin seen)

CheckEvent(ans) ==
    IF ans.raised THEN [type |-> "check_raise"]
    ELSE [type |-> "check_return", count |-> CheckCount,
          response |-> ans.tracks,
          value |-> NewTracks(ans.tracks, seen_track_ids)]

CheckForNewLikes ==
    /\ pc = "idle"
    /\ \E ans \in FetchAnswers(service_name, GetRecentlyLikedSongs(CheckCount)) :
          ev' = CheckEvent(ans)
    /\ ClearLogs
    /\ UNCHANGED <<liked, enqueued, settingsVars, watcherVars, cache_file, frames, pc,
                   processVars, runVars>>


\* -------------------------------------------------------- process_new_track
\* process_new_track returns `value' to its caller (watcher.py:216, 258)
ProcessReturn(t, value) ==
    /\ ev' = [type |-> "process_return", track |-> t, value |-> value,
              scraped |-> artists_to_scrape,
              again |-> pc \in {"idle", "r_loop"} /\ ev.type = "process_return"
                        /\ ev.track = t]
    /\ ResetProcessVars
    /\ IF InRunOnce
       THEN /\ all_queued' = all_queued \o value      \* watcher.py:279
            /\ ti' = ti + 1
            /\ pc' = "r_loop"
            /\ UNCHANGED <<frames, new_tracks>>
       ELSE /\ pc' = "idle"
            /\ UNCHANGED <<frames, runVars>>

ProcessRaisePropagates(t, cause, c) ==
    /\ ev' = [type |-> "process_raise", track |-> t, cause |-> cause,
              candidate |-> c]
    /\ ResetProcessVars
    /\ pc' = "idle"
    /\ frames' = <<>>
    /\ UNCHANGED runVars

\* an exception leaves process_new_track: run_once catches it
\* (watcher.py:281), any other caller gets it
ProcessRaise(t, cause, c) ==
    /\ ev' = [type |-> "process_raise", track |-> t, cause |-> cause,
              candidate |-> c]
    /\ ResetProcessVars
    /\ pc' = IF InRunOnce THEN "r_except" ELSE "idle"
    /\ UNCHANGED <<frames, runVars>>

RejectForgetsTrack(known, seen, t) ==
    [known |-> known \cup artist_ids(t), seen |-> seen]

RejectForgetsArtists(known, seen, t) ==
    [known |-> known, seen |-> seen \cup {t}]

\* watcher.py:214-215
RejectUpdate(known, seen, t) ==
    [known |-> known \cup artist_ids(t), seen |-> seen \cup {t}]

AcceptForgetsTrack(known, seen, t) ==
    [known |-> known \cup artist_ids(t), seen |-> seen]

\* watcher.py:248-249
AcceptUpdate(known, seen, t) ==
    [known |-> known \cup artist_ids(t), seen |-> seen \cup {t}]

MarksBeforeScrape(known, seen, t) ==
    [known |-> known \cup artist_ids(t), seen |-> seen \cup {t}]

\* watcher.py:218-222: an accepted track is not marked before its scrape
ScrapeBegins(known, seen, t) == [known |-> known, seen |-> seen]

\* watcher.py:201-220
BeginProcess(t) ==
    LET result == Evaluate(t, known_artist_ids, min_artists, skip_known_artists)
    IN /\ ClearLogs
       /\ IF ~result.should_scrape
          THEN /\ seen_track_ids' =
                    RejectUpdate(known_artist_ids, seen_track_ids, t).seen
               /\ known_artist_ids' =
                    RejectUpdate(known_artist_ids, seen_track_ids, t).known
               /\ ProcessReturn(t, <<>>)
          ELSE /\ track' = t
               /\ artists_to_scrape' = result.artists_to_scrape
               /\ ai' = 1
               /\ top_tracks' = <<>>
               /\ ci' = 0
               /\ queued_tracks' = <<>>
               /\ pc' = "p_fetch"
               /\ ev' = [type |-> "accept", track |-> t]
               /\ seen_track_ids' =
                    ScrapeBegins(known_artist_ids, seen_track_ids, t).seen
               /\ known_artist_ids' =
                    ScrapeBegins(known_artist_ids, seen_track_ids, t).known
               /\ UNCHANGED <<frames, runVars>>
       /\ UNCHANGED <<liked, enqueued, settingsVars, running, last_poll_time, cache_file>>

\* process_new_track called by the shell (EventDrivenWatcher.on_track_liked,
\* watcher.py:356-365) for a track the user has liked
ProcessNewTrack(t) ==
    /\ pc = "idle"
    /\ t \in Range(liked)
    /\ BeginProcess(t)

\* where the scrape loop goes once the artist at index i is done
AfterArtist(i) ==
    IF i < Len(artists_to_scrape)
    THEN ai' = i + 1 /\ pc' = "p_fetch"
    ELSE ai' = i /\ pc' = "p_finish"

\* the backend has been asked for artist a's top tracks
\* (spotify_client.py:119, tidal_client.py:255-256)
RequestsAfter(requests, a) ==
    IF observed THEN requests \cup {a} ELSE requests

\* watcher.py:224-228: one get_artist_top_tracks call
FetchTopTracks ==
    /\ pc = "p_fetch"
    /\ \E tops \in TopTrackAnswers(artists_to_scrape[ai], TopTracksLimit) :
          /\ top_tracks' = tops
          /\ top_calls' = Append(top_calls,
                [artist |-> artists_to_scrape[ai], tracks |-> tops])
          /\ ev' = [type |-> "top_tracks", artist |-> artists_to_scrape[ai]]
          /\ top_requests' = RequestsAfter(top_requests, artists_to_scrape[ai])
          /\ IF tops = <<>>
             THEN ci' = 0 /\ AfterArtist(ai)
             ELSE ci' = 1 /\ ai' = ai /\ pc' = "p_cand"
    /\ settingsKept
    /\ UNCHANGED <<liked, liked_before, enqueued, watcherVars, cache_file, frames,
                   track, artists_to_scrape, queued_tracks, runVars,
                   queue_calls, cb_calls>>

SkipsOnlySelf(c, t, seen) == c = t

\* watcher.py:232-238: the candidate is not passed to add_to_queue
SkipCandidate(c, t, seen) == c = t \/ c \in seen

NextCandidate ==
    IF ci < Len(top_tracks)
    THEN ci' = ci + 1 /\ ai' = ai /\ pc' = "p_cand"
    ELSE ci' = ci /\ AfterArtist(ai)

QueuedWhatever(queued, c, answer) == Append(queued, c)

\* watcher.py:241-245
QueuedAfter(queued, c, answer) ==
    IF answer = "true" THEN Append(queued, c) ELSE queued

\* what self.client.add_to_queue can answer: with --dry-run the shell has
\* replaced it by a function that logs and returns True (main.py:213-222)
ClientQueueAnswers ==
    IF dry_run THEN {"true"} ELSE QueueAnswers(service_name)

\* the backend's queue takes the track when the client's own add_to_queue
\* answers true (spotify_client.py:138-140, tidal_client.py:262-304)
EnqueuedAfter(queue, t, c, answer) ==
    IF observed /\ ~dry_run /\ answer = "true" THEN queue \cup {<<t, c>>}
    ELSE queue

\* watcher.py:230-245: one candidate of the current artist
Candidate ==
    /\ pc = "p_cand"
    /\ LET c == top_tracks[ci]
       IN IF SkipCandidate(c, track, seen_track_ids)
          THEN /\ ev' = [type |-> "skip", track |-> track, candidate |-> c]
               /\ NextCandidate
               /\ UNCHANGED <<queue_calls, queued_tracks, track, enqueued,
                              artists_to_scrape, top_tracks, frames, runVars>>
          ELSE \E answer \in ClientQueueAnswers :
                  /\ queue_calls' = Append(queue_calls,
                        [track |-> c, answer |-> answer])
                  /\ enqueued' = EnqueuedAfter(enqueued, track, c, answer)
                  /\ IF answer = "raise"
                     THEN ProcessRaise(track, "add_to_queue", c)
                     ELSE /\ ev' = [type |-> "add_to_queue", track |-> track,
                                    candidate |-> c, answer |-> answer]
                          /\ queued_tracks' =
                                QueuedAfter(queued_tracks, c, answer)
                          /\ NextCandidate
                          /\ UNCHANGED <<track, artists_to_scrape, top_tracks,
                                         frames, runVars>>
    /\ UNCHANGED <<liked, settingsVars, watcherVars, cache_file,
                   top_calls, cb_calls>>

\* watcher.py:255
InvokesCallback(registered, queued) == registered /\ queued # <<>>

\* watcher.py:247-258, up to the callback's invocation
Finish ==
    /\ pc = "p_finish"
    /\ LET up == AcceptUpdate(known_artist_ids, seen_track_ids, track)
       IN /\ seen_track_ids' = up.seen
          /\ known_artist_ids' = up.known
          /\ cache_file' = SaveCache(up.known, up.seen)
    /\ IF InvokesCallback(on_scrape_triggered, queued_tracks)
       THEN /\ pc' = "p_callback"
            /\ cb_calls' = Append(cb_calls,
                  [track |-> track, queued |-> queued_tracks])
            /\ ev' = [type |-> "callback", track |-> track,
                      value |-> queued_tracks]
            /\ UNCHANGED <<processVars, frames, runVars>>
       ELSE /\ ProcessReturn(track, queued_tracks)
            /\ UNCHANGED cb_calls
    /\ UNCHANGED <<liked, enqueued, settingsVars, running, last_poll_time,
                   top_calls, queue_calls>>

\* watcher.py:256-258: the callback returns, or raises
Callback ==
    /\ pc = "p_callback"
    /\ \E raises \in BOOLEAN :
          IF raises THEN ProcessRaise(track, "callback", 0)
          ELSE ProcessReturn(track, queued_tracks)
    /\ UNCHANGED <<liked, enqueued, settingsVars, watcherVars, cache_file, logVars>>

\* ------------------------------------------------------------------ run_once
\* watcher.py:266-269
RunOnceBegin ==
    /\ \E now \in Times : last_poll_time' = now
    /\ frames' = Append(frames, "run_once")
    /\ pc' = "r_check"
    /\ ResetRunVars
    /\ ev' = [type |-> "run_once_begin"]
    /\ ClearLogs
    /\ UNCHANGED <<liked, enqueued, settingsVars, known_artist_ids, seen_track_ids,
                   running, cache_file, processVars>>

RunOnce ==
    /\ pc = "idle"
    /\ RunOnceBegin

\* watcher.py:272: check_for_new_likes called by run_once
RunCheck ==
    /\ pc = "r_check"
    /\ \E ans \in FetchAnswers(service_name, GetRecentlyLikedSongs(CheckCount)) :
          /\ ev' = CheckEvent(ans)
          /\ IF ans.raised
             THEN pc' = "r_except" /\ UNCHANGED runVars
             ELSE /\ new_tracks' = NewTracks(ans.tracks, seen_track_ids)
                  /\ ti' = 1
                  /\ pc' = "r_loop"
                  /\ UNCHANGED all_queued
    /\ ClearLogs
    /\ UNCHANGED <<liked, enqueued, settingsVars, watcherVars, cache_file, frames,
                   processVars>>

\* watcher.py:284, and what the caller of run_once does next
RunOnceReturn ==
    /\ frames' = Front(frames)
    /\ pc' = IF Front(frames) = <<"start">> THEN "s_sleep"
             ELSE IF Front(frames) = <<"once">> THEN "o_exit" ELSE "idle"
    /\ ev' = [type |-> "run_once_return", value |-> all_queued,
              caught |-> pc = "r_except"]
    /\ ResetRunVars
    /\ ClearLogs
    /\ UNCHANGED <<liked, enqueued, settingsVars, watcherVars, cache_file, processVars>>

\* watcher.py:277-279: the next new track, or the end of the batch
RunLoop ==
    /\ pc = "r_loop"
    /\ IF ti <= Len(new_tracks)
       THEN BeginProcess(new_tracks[ti])
       ELSE RunOnceReturn

RunExceptEndsLoop ==
    /\ pc = "r_except"
    /\ frames' = <<>>
    /\ pc' = "idle"
    /\ ev' = [type |-> "run_once_return", value |-> all_queued,
              caught |-> TRUE]
    /\ ResetRunVars
    /\ ClearLogs
    /\ UNCHANGED <<liked, enqueued, settingsVars, watcherVars, cache_file,
                   processVars>>

\* watcher.py:281-284
RunExcept ==
    /\ pc = "r_except"
    /\ RunOnceReturn

\* -------------------------------------------------------------- start, stop
\* watcher.py:286-302: build_known_artists_index, then the running flag
Start ==
    /\ pc = "idle"
    /\ \E ans \in FetchAnswers(service_name, BuildFetch) :
          /\ BuildEffect(ans)
          /\ IF ans.raised
             THEN /\ ev' = [type |-> "start_raise", warm |-> CacheLoads,
                               fetched |-> ans.tracks,
                    saved |-> BuildOutcome(ans).save,
                    found |-> use_cache /\ cache_file.exists,
                    from_empty |-> known_artist_ids = {} /\ seen_track_ids = {}]
                  /\ UNCHANGED <<running, frames, pc>>
             ELSE /\ running' = TRUE
                  /\ frames' = <<"start">>
                  /\ pc' = "s_loop"
                  /\ ev' = [type |-> "start_indexed", warm |-> CacheLoads,
                               fetched |-> ans.tracks,
                    saved |-> BuildOutcome(ans).save,
                    found |-> use_cache /\ cache_file.exists,
                    from_empty |-> known_artist_ids = {} /\ seen_track_ids = {}]
    /\ ClearLogs
    /\ UNCHANGED <<liked, enqueued, settingsVars, last_poll_time, processVars, runVars>>

StartLoopIgnoresFlag ==
    /\ pc = "s_loop"
    /\ RunOnceBegin

\* watcher.py:305-309: the loop's test, then run_once or the end of start
StartLoop ==
    /\ pc = "s_loop"
    /\ IF running
       THEN RunOnceBegin
       ELSE /\ frames' = <<>>
            /\ pc' = "idle"
            /\ ev' = [type |-> "start_return"]
            /\ ClearLogs
            /\ UNCHANGED <<liked, enqueued, settingsVars, watcherVars, cache_file,
                           processVars, runVars>>

\* watcher.py:310-311: the sleep ends
Sleep ==
    /\ pc = "s_sleep"
    /\ pc' = "s_loop"
    /\ ev' = [type |-> "slept"]
    /\ ClearLogs
    /\ UNCHANGED <<liked, enqueued, settingsVars, watcherVars, cache_file, frames,
                   processVars, runVars>>

\* watcher.py:313-315 and 321-324: KeyboardInterrupt inside the loop's try
Interrupt ==
    /\ InStart
    /\ pc # "s_loop"
    /\ running' = FALSE
    /\ frames' = <<"start">>
    /\ pc' = "s_loop"
    /\ ev' = [type |-> "interrupt"]
    /\ ResetProcessVars
    /\ ResetRunVars
    /\ ClearLogs
    /\ UNCHANGED <<liked, enqueued, settingsVars, known_artist_ids, seen_track_ids,
                   last_poll_time, cache_file>>

\* watcher.py:321-324: stop() called by the shell
Stop ==
    /\ pc = "idle"
    /\ running' = FALSE
    /\ ev' = [type |-> "stop"]
    /\ ClearLogs
    /\ UNCHANGED <<liked, enqueued, settingsVars, known_artist_ids, seen_track_ids,
                   last_poll_time, cache_file, frames, pc, processVars, runVars>>

Next ==
    \/ \E t \in Tracks : Like(t)
    \/ BuildKnownArtistsIndex
    \/ CheckForNewLikes
    \/ \E t \in Tracks : ProcessNewTrack(t)
    \/ FetchTopTracks
    \/ Candidate
    \/ Finish
    \/ Callback
    \/ RunOnce
    \/ RunCheck
    \/ RunLoop
    \/ RunExcept
    \/ Start
    \/ StartLoop
    \/ Sleep
    \/ Interrupt
    \/ Stop

Spec == Init /\ [][Next]_vars

\* the shell only polls, one run_once after the other (main.py:236-245,
\* lambda_handler.py:116-162)
NextPolling ==
    \/ \E t \in Tracks : Like(t)
    \/ RunOnce
    \/ RunCheck
    \/ RunLoop
    \/ RunExcept
    \/ FetchTopTracks
    \/ Candidate
    \/ Finish
    \/ Callback

SpecQueue == InitQueue /\ [][NextPolling]_vars

\* =================================================================== claims
\* what the claims read off the logs of a process_new_track call
RECURSIVE Flatten(_)
Flatten(calls) ==
    IF calls = <<>> THEN <<>>
    ELSE calls[1].tracks \o Flatten(Tail(calls))

Candidates == Flatten(top_calls)

Attempted == [i \in 1..Len(queue_calls) |-> queue_calls[i].track]

Succeeded ==
    LET ok == SelectSeq(queue_calls, LAMBDA q : q.answer = "true")
    IN [i \in 1..Len(ok) |-> ok[i].track]

BuildEvents == {"build_return", "build_raise", "start_indexed", "start_raise"}

\* this step is the first step of a call process_new_track(t)
BeginsProcess(t) ==
    /\ pc \in {"idle", "r_loop"}
    /\ ev'.type \in {"process_return", "accept"}
    /\ ev'.track = t

\* C1: when a call process_new_track(T) returns, on the reject path or on
\* the accept path and whatever the remote calls answered, T is in
\* seen_track_ids.
C1_ProcessedTrackIsSeen ==
    ev.type = "process_return" => ev.track \in seen_track_ids

\* a call returned on the accept path after add_to_queue answered false
C1_Witness ==
    /\ ev.type = "process_return"
    /\ ev.track \in seen_track_ids
    /\ \E i \in 1..Len(queue_calls) : queue_calls[i].answer = "false"

\* C2: no step of a watcher operation removes an element from
\* seen_track_ids, except the step of build_known_artists_index (called
\* directly or by start) that takes the warm path, where _load_cache puts
\* the snapshot's set in place of the one in memory.
C2_SeenOnlyGrows ==
    [][(ev'.type \in BuildEvents /\ CacheLoads)
        \/ seen_track_ids \subseteq seen_track_ids']_vars

\* a cold index build ran on a watcher that had seen tracks, fetched
\* nothing, and the tracks are still seen
C2_Witness ==
    /\ ev.type = "build_return"
    /\ ~ev.warm
    /\ known_artist_ids = {}
    /\ seen_track_ids # {}

\* C3: no step of a watcher operation, repeated calls of
\* build_known_artists_index included, removes an element from
\* known_artist_ids.
C3_KnownOnlyGrows ==
    [][known_artist_ids \subseteq known_artist_ids']_vars

\* C4: every seen track has all of its artists in known_artist_ids.
C4_SeenTracksHaveKnownArtists ==
    \A t \in seen_track_ids : artist_ids(t) \subseteq known_artist_ids

\* C5: check_for_new_likes asks for the 20 most recent liked tracks, returns
\* the tracks of the answer that are not in seen_track_ids, in the answer's
\* order, and changes neither known_artist_ids, seen_track_ids,
\* last_poll_time, the running flag nor the cache file.
C5_CheckIsPureDiff ==
    [][ev'.type = "check_return" =>
        /\ ev'.count = 20
        /\ ev'.response \in {SubSeq(liked, 1, Min(20, Len(liked))), <<>>}
        /\ ev'.value =
              SelectSeq(ev'.response, LAMBDA t : t \notin seen_track_ids)
        /\ UNCHANGED <<known_artist_ids, seen_track_ids, last_poll_time,
                       running, cache_file, liked>>]_vars

\* a check returned some of the answer's tracks and held back a seen one
C5_Witness ==
    /\ ev.type = "check_return"
    /\ ev.value # <<>>
    /\ Len(ev.value) < Len(ev.response)
    /\ \A i \in 1..Len(ev.value) : ev.value[i] \notin seen_track_ids

\* C6: when the rule engine rejects T, the call process_new_track(T) adds T
\* to seen_track_ids and T's artists to known_artist_ids, returns an empty
\* list, and calls neither get_artist_top_tracks, add_to_queue nor the
\* callback.
C6_RejectPath ==
    [][\A t \in Tracks :
          (/\ BeginsProcess(t)
           /\ ~Evaluate(t, known_artist_ids, min_artists,
                        skip_known_artists).should_scrape)
          => /\ seen_track_ids' = seen_track_ids \cup {t}
             /\ known_artist_ids' = known_artist_ids \cup artist_ids(t)
             /\ ev'.type = "process_return"
             /\ ev'.value = <<>>
             /\ top_calls' = <<>>
             /\ queue_calls' = <<>>
             /\ cb_calls' = <<>>
             /\ pc' = pc]_vars

\* a collaboration was rejected, and its artists were not all known before
C6_Witness ==
    /\ ev.type = "process_return"
    /\ ev.scraped = <<>>
    /\ Len(TrackArtists(ev.track)) = 2
    /\ ev.track \in seen_track_ids
    /\ artist_ids(ev.track) \subseteq known_artist_ids
    /\ cache_file.exists
    /\ ~(artist_ids(ev.track) \subseteq SetOf(cache_file.known_artist_ids))

C8_FalseDoesNotStop ==
    /\ (ev.type = "add_to_queue" /\ ev.answer = "false")
       => /\ pc \in {"p_cand", "p_fetch", "p_finish"}
          /\ pc = "p_cand" => ci <= Len(top_tracks)
          /\ pc = "p_fetch" => ai <= Len(artists_to_scrape)
          /\ pc = "p_finish" =>
                (ai = Len(artists_to_scrape) /\ ci = Len(top_tracks))
    /\ (ev.type = "process_return" /\ ev.scraped # <<>>)
       => /\ [i \in 1..Len(top_calls) |-> top_calls[i].artist] = ev.scraped
          /\ \A i \in 1..Len(Candidates) :
                \/ Candidates[i] \in seen_track_ids
                \/ \E k \in 1..Len(Attempted) : Attempted[k] = Candidates[i]
          /\ ev.track \in seen_track_ids
          /\ artist_ids(ev.track) \subseteq known_artist_ids
          /\ (\A k \in 1..Len(queue_calls) : queue_calls[k].answer = "false")
                => ev.value = <<>>

\* two artists were scraped, add_to_queue was called for candidates of both
\* and answered false every time
C8_Witness ==
    /\ ev.type = "process_return"
    /\ Len(top_calls) = 2
    /\ \A i \in 1..2 :
          \E c \in Range(top_calls[i].tracks) : c \in Range(Attempted)
    /\ \A k \in 1..Len(queue_calls) : queue_calls[k].answer = "false"
    /\ ev.value = <<>>

\* C9: the callback is invoked only when it is registered and at least one
\* add_to_queue answered true, once, with the triggering track and the queued
\* tracks, and then the track is seen, its artists are known and the cache
\* file holds that state; a call that returns has invoked it once in that
\* case and not at all otherwise (reject, nothing queued, none registered).
C9_CallbackOnceAfterPersist ==
    /\ pc = "p_callback"
       => /\ on_scrape_triggered
          /\ queued_tracks # <<>>
          /\ queued_tracks = Succeeded
          /\ cb_calls = <<[track |-> track, queued |-> queued_tracks]>>
          /\ track \in seen_track_ids
          /\ artist_ids(track) \subseteq known_artist_ids
          /\ cache_file = [exists |-> TRUE, user_id |-> UserId,
                           service |-> service_name,
                           known_artist_ids |-> ListOf(known_artist_ids),
                           seen_track_ids |-> ListOf(seen_track_ids)]
    /\ ev.type = "process_return"
       => Len(cb_calls) =
            (IF on_scrape_triggered /\ Succeeded # <<>> THEN 1 ELSE 0)
    /\ ev.type = "process_raise"
       => Len(cb_calls) = (IF ev.cause = "callback" THEN 1 ELSE 0)

\* C10: a call process_new_track(T) made right after a call
\* process_new_track(T) that returned calls neither get_artist_top_tracks nor
\* add_to_queue, returns an empty list and leaves known_artist_ids and
\* seen_track_ids as they were.
C10_SecondCallChangesNothing ==
    [][(/\ ev.type = "process_return"
        /\ BeginsProcess(ev.track))
       => /\ ev'.type = "process_return"
          /\ ev'.value = <<>>
          /\ top_calls' = <<>>
          /\ queue_calls' = <<>>
          /\ known_artist_ids' = known_artist_ids
          /\ seen_track_ids' = seen_track_ids]_vars

\* a second call for a collaboration returned, under rules that let known
\* artists pass
C10_Witness ==
    /\ ev.type = "process_return"
    /\ ev.again
    /\ ~skip_known_artists
    /\ Len(TrackArtists(ev.track)) >= min_artists

\* C11: across poll cycles a like triggers top-track enqueuing at most once:
\* no scrape begins for a track the backend's queue already took a candidate
\* for, and add_to_queue never succeeds a second time for the same like and
\* the same candidate, whatever fails in between.
C11_NoDuplicateEnqueue ==
    [][/\ ev'.type = "accept"
          => \A c \in Tracks : <<ev'.track, c>> \notin enqueued
       /\ (ev'.type = "add_to_queue" /\ ev'.answer = "true")
          => <<ev'.track, ev'.candidate>> \notin enqueued]_vars

\* ------------------------------------------------- the loop under a burst
\* Between two polls of the loop the user likes RecentPollCount + 1 tracks
\* (say, the tracks of a playlist), newest first in the liked list.
LikeBurst(n) ==
    /\ pc = "s_sleep"
    /\ Len(liked) < MaxTracks
    /\ liked' = [i \in 1..n |-> Len(liked) + n + 1 - i] \o liked
    /\ ev' = [type |-> "like", track |-> Len(liked) + n]
    /\ ClearLogs
    /\ UNCHANGED <<enqueued, settingsVars, watcherVars, cache_file, frames,
                   pc, processVars, runVars>>

\* the poll's fetch is answered with the liked list
RunCheckAnswered ==
    /\ RunCheck
    /\ ev'.type = "check_return"
    /\ ev'.response = GetRecentlyLikedSongs(CheckCount)

\* add_to_queue answers true or false
CandidateAnswered == Candidate /\ ev'.type # "process_raise"

\* the steps of the loop of start()
LoopStep ==
    \/ StartLoop
    \/ Sleep
    \/ RunCheck
    \/ RunLoop
    \/ RunExcept
    \/ FetchTopTracks
    \/ CandidateAnswered
    \/ Finish
    \/ Callback

NextBurst ==
    \/ \E t \in Tracks : Like(t)
    \/ LikeBurst(RecentPollCount + 1)
    \/ Start
    \/ LoopStep

\* the default rules (config.py:26-41)
InitBurst == Init /\ min_artists = 2 /\ skip_known_artists

\* every step of the loop ends (a remote call returns, the sleep is over),
\* and the backend does not fail for ever
SpecBurst ==
    /\ InitBurst
    /\ [][NextBurst]_vars
    /\ WF_vars(LoopStep)
    /\ SF_vars(RunCheckAnswered)

\* the track is handed to process_new_track
PassedToProcess(t) == ev.type \in {"accept", "process_return"} /\ ev.track = t

\* C12: a track the user likes while the loop of start() is polling, and that
\* the watcher has not seen, is eventually passed to process_new_track by a
\* run_once of the loop, however many tracks are liked between two polls.
C12_NoLikeMissed ==
    \A t \in 1..(RecentPollCount + MaxTracks) :
        [](t \in Range(liked) /\ t \notin seen_track_ids /\ InStart
           => <>(PassedToProcess(t) \/ t \in seen_track_ids))

StopDuringLoop ==
    /\ InStart
    /\ running
    /\ running' = FALSE
    /\ ev' = [type |-> "stop"]
    /\ UNCHANGED <<liked, enqueued, settingsVars, known_artist_ids,
                   seen_track_ids, last_poll_time, cache_file, frames, pc,
                   processVars, runVars, logVars>>

\* the steps of the loop, add_to_queue raising included
LoopStepOrRaise == LoopStep \/ Candidate

NextLoop ==
    \/ \E t \in Tracks : Like(t)
    \/ Start
    \/ LoopStepOrRaise
    \/ Interrupt
    \/ StopDuringLoop

\* every step of the loop ends: a remote call returns or raises, the sleep
\* is over
SpecLoop == Init /\ [][NextLoop]_vars /\ WF_vars(LoopStepOrRaise)

\* C14: inside the loop of start() an error of a remote call or of the
\* callback does not end the loop: it is caught inside run_once with start()
\* still on the stack and the running flag untouched, start() is left only
\* by its return with the running flag false, a run_once of the loop begins
\* only after the index or after a sleep, and after an error the loop goes on
\* to its next run_once unless the flag is set false first.
C14_ErrorsDoNotEndLoop ==
    /\ [][/\ (InStart /\ ev'.type \in {"process_raise", "check_raise"})
             => (InStart' /\ running' = running /\ pc' = "r_except")
          /\ (InStart /\ ~InStart')
             => (~running /\ ev'.type = "start_return")
          /\ (InStart /\ ev'.type = "run_once_begin")
             => ev.type \in {"start_indexed", "slept"}]_vars
    /\ []((InStart /\ ev.type \in {"process_raise", "check_raise"})
          => <>(~running \/ ev.type = "run_once_begin"))

\* an error was caught in an iteration of the loop, and the loop is at its
\* sleep with the flag still true
C14_Witness ==
    /\ InStart
    /\ running
    /\ pc = "s_sleep"
    /\ ev.type = "run_once_return"
    /\ ev.caught

\* C15: once stop() was called while start() is in its loop the running flag
\* is false and stays false while start() is on the stack, the loop begins
\* no run_once any more, and start() eventually returns.
C15_StopEndsLoop ==
    /\ [][/\ ev'.type = "stop" => ~running'
          /\ (InStart /\ ~running)
             => (~running' /\ ev'.type # "run_once_begin")]_vars
    /\ []((InStart /\ ~running) => <>(~InStart /\ ev.type = "start_return"))

\* stop() was called in the middle of a scrape of the loop's run_once
C15_Witness ==
    /\ InStart
    /\ ~running
    /\ ev.type = "stop"
    /\ pc = "p_cand"

\* ------------------------------------------- interrupts outside the try
\* KeyboardInterrupt raised while the loop is at its test (watcher.py:305),
\* which the try of watcher.py:306-311 does not cover: no handler of start()
\* catches it, stop() is not called and the exception leaves start()
InterruptOutsideTry ==
    /\ InStart
    /\ pc = "s_loop"
    /\ frames' = <<>>
    /\ pc' = "idle"
    /\ ev' = [type |-> "interrupt_escaped"]
    /\ ResetProcessVars
    /\ ResetRunVars
    /\ ClearLogs
    /\ UNCHANGED <<liked, enqueued, settingsVars, watcherVars, cache_file>>

NextInterrupt == NextLoop \/ InterruptOutsideTry

SpecInterrupt == Init /\ [][NextInterrupt]_vars /\ WF_vars(LoopStepOrRaise)

\* C16: an interrupt delivered while start() is in its loop is handled by
\* stop(): the running flag is false afterwards, start() is still on the
\* stack and the loop is at its test, from where it ends normally; the
\* interrupt never leaves start() as an exception.
C16_InterruptHandled ==
    [][(InStart /\ ev'.type \in {"interrupt", "interrupt_escaped"})
       => /\ ev'.type = "interrupt"
          /\ InStart'
          /\ ~running'
          /\ pc' = "s_loop"]_vars

\* C17: the watcher moves along idle, indexing, polling, stopped: the index
\* is built once per start(), by start() itself and before its loop (no
\* build happens while the loop is on the stack), the loop begins a run_once
\* only while the running flag is true, and the flag is true only while
\* start() is polling.
C17_Lifecycle ==
    /\ [][/\ ev'.type \in {"start_indexed", "start_raise", "build_return", "build_raise"}
             => ~InStart
          /\ (~InStart /\ InStart') => (ev'.type = "start_indexed" /\ running' /\ pc' = "s_loop")
          /\ (InStart /\ ev'.type = "run_once_begin") => running]_vars
    /\ [](running => InStart)

\* ------------------------------------------------- the index and its cache
\* scan limits below and above the number of liked tracks
ScanLimits == {1, 2, DefaultScanLimit}

\* a snapshot an earlier run of this user's watcher wrote with the Tidal
\* client
OwnTidalCache ==
    [exists |-> TRUE, user_id |-> UserId, service |-> "Tidal",
     known_artist_ids |-> <<1>>, seen_track_ids |-> <<1>>]

InitIndex ==
    /\ SetupWith(ScanLimits, {NoFile, OtherUserCache, OwnTidalCache})
    /\ observed = FALSE
    /\ on_scrape_triggered

\* the user likes n tracks in a row while no call of the watcher is under way
LikeOffline(n) ==
    /\ pc = "idle"
    /\ Len(liked) < MaxTracks
    /\ liked' = [i \in 1..n |-> Len(liked) + n + 1 - i] \o liked
    /\ ev' = [type |-> "like", track |-> Len(liked) + n]
    /\ ClearLogs
    /\ UNCHANGED <<enqueued, settingsVars, watcherVars, cache_file, frames, pc,
                   processVars, runVars>>

\* process_new_track for a track the rule engine rejects (watcher.py:211-216)
ProcessRejected(t) == ProcessNewTrack(t) /\ ev'.type = "process_return"

\* the index built again and again, between likes and tracks that are
\* rejected (EventDrivenWatcher.initialize and on_track_liked,
\* watcher.py:352-365)
NextIndex ==
    \/ \E t \in Tracks : Like(t)
    \/ LikeOffline(ResyncCount + 1)
    \/ BuildKnownArtistsIndex
    \/ \E t \in Tracks : ProcessRejected(t)

SpecIndex == InitIndex /\ [][NextIndex]_vars

\* C18: a build_known_artists_index that took the cold path and returned has
\* fetched at most known_artists_scan_limit tracks, known_artist_ids is the
\* union of the fetched tracks' artist ids, every fetched track is in
\* seen_track_ids, and the cache file is a snapshot of that state.
C18_ColdPath ==
    [][(ev'.type = "build_return" /\ ~ev'.warm)
       => /\ Len(ev'.fetched) <= known_artists_scan_limit
          /\ known_artist_ids' = UnionArtists(Range(ev'.fetched))
          /\ Range(ev'.fetched) \subseteq seen_track_ids'
          /\ cache_file' = [exists |-> TRUE, user_id |-> UserId,
                            service |-> service_name,
                            known_artist_ids |-> ListOf(known_artist_ids'),
                            seen_track_ids |-> ListOf(seen_track_ids')]]_vars

\* C19: a build_known_artists_index that took the warm path and returned
\* fetched the 50 most recent liked tracks (or nothing, when the backend
\* failed), seen_track_ids is the snapshot's set plus the fetched tracks
\* that were not in it, known_artist_ids is the snapshot's set plus those
\* tracks' artists, no top-tracks call, queue call or callback was made, and
\* _save_cache was called exactly when at least one track was added, and
\* wrote a snapshot of the new state.
C19_WarmPath ==
    [][(ev'.type = "build_return" /\ ev'.warm)
       => LET recent == ev'.fetched
              synced == {t \in Range(recent) :
                            t \notin SetOf(cache_file.seen_track_ids)}
          IN /\ recent \in {Take(liked, ResyncCount), <<>>}
             /\ seen_track_ids' = SetOf(cache_file.seen_track_ids) \cup synced
             /\ known_artist_ids' = SetOf(cache_file.known_artist_ids)
                                        \cup UnionArtists(synced)
             /\ top_calls' = <<>> /\ queue_calls' = <<>> /\ cb_calls' = <<>>
             /\ ev'.saved <=> synced # {}
             /\ ev'.saved
                => cache_file' = [exists |-> TRUE, user_id |-> UserId,
                                  service |-> service_name,
                                  known_artist_ids |-> ListOf(known_artist_ids'),
                                  seen_track_ids |-> ListOf(seen_track_ids')]
             /\ ~ev'.saved => cache_file' = cache_file]_vars

\* a warm start resynced 50 tracks of a longer liked list and wrote the cache
C19_Witness ==
    /\ ev.type = "build_return"
    /\ ev.warm
    /\ Len(ev.fetched) = ResyncCount
    /\ Len(liked) > ResyncCount
    /\ \E t \in Range(liked) : t \notin seen_track_ids
    /\ ev.saved
    /\ SetOf(cache_file.seen_track_ids) = seen_track_ids
    /\ Range(ev.fetched) \subseteq seen_track_ids

\* the cache file is a snapshot of another user or of another service
MismatchedCache ==
    /\ cache_file.exists
    /\ cache_file.user_id # UserId \/ cache_file.service # service_name

\* C20: when build_known_artists_index finds a snapshot of another user or
\* service, it takes the cold path: it fetches the liked tracks up to the
\* scan limit (the backend may fail), and the watcher state afterwards is
\* what the cold rebuild makes of the fetched tracks alone, as with no cache
\* file: nothing of the snapshot is taken.
C20_MismatchedCacheDiscarded ==
    [][(ev'.type \in {"build_return", "build_raise"} /\ use_cache /\ MismatchedCache)
       => /\ ~ev'.warm
          /\ ev'.type = "build_return"
             => /\ ev'.fetched \in {Take(liked, known_artists_scan_limit), <<>>}
                /\ known_artist_ids' = UnionArtists(Range(ev'.fetched))
                /\ seen_track_ids' = seen_track_ids \cup Range(ev'.fetched)
          /\ ev'.type = "build_raise"
             => /\ known_artist_ids' = known_artist_ids
                /\ seen_track_ids' = seen_track_ids]_vars

\* the Tidal client found the other user's snapshot, whose track 1 and
\* artist 1 are not among what the rebuild fetched
C20_Witness ==
    /\ ev.type = "build_return"
    /\ ev.found
    /\ ~ev.warm
    /\ service_name = "Tidal"
    /\ ev.fetched # <<>>
    /\ 1 \notin seen_track_ids
    /\ 1 \notin known_artist_ids
    /\ cache_file.user_id = UserId

\* ------------------------------------------------------------ a new watcher
\* the process ends and a new watcher is constructed over the same cache
\* file, client and settings (watcher.py:46-51)
NewWatcher ==
    /\ pc = "idle"
    /\ known_artist_ids' = {}
    /\ seen_track_ids' = {}
    /\ running' = FALSE
    /\ last_poll_time' = NoTime
    /\ ev' = [type |-> "new_watcher"]
    /\ ClearLogs
    /\ UNCHANGED <<liked, enqueued, settingsVars, cache_file, frames, pc,
                   processVars, runVars>>

NextRestart == NextIndex \/ NewWatcher

SpecRestart == InitIndex /\ [][NextRestart]_vars

\* C21: the snapshot a build_known_artists_index wrote reads back as the
\* pair of sets that was in memory and carries this user and this service;
\* likes and the construction of a new watcher leave the file alone; and a
\* watcher that loads it has the snapshot's pair plus the tracks of the
\* resync that were not in it, and those tracks' artists.
C21_CacheRoundTrip ==
    /\ []((ev.type = "build_return" /\ ev.saved /\ service_name = "Tidal")
          => /\ cache_file.exists
             /\ cache_file.user_id = UserId
             /\ cache_file.service = service_name
             /\ Range(cache_file.known_artist_ids) = known_artist_ids
             /\ Range(cache_file.seen_track_ids) = seen_track_ids)
    /\ [][/\ ev'.type \in {"like", "new_watcher"} => cache_file' = cache_file
          /\ ev'.type = "new_watcher"
             => known_artist_ids' = {} /\ seen_track_ids' = {}
          /\ (ev'.type = "build_return" /\ ev'.warm)
             => LET written_known == Range(cache_file.known_artist_ids)
                    written_seen == Range(cache_file.seen_track_ids)
                    resync == Range(Take(liked, ResyncCount)) \ written_seen
                    added == seen_track_ids' \ written_seen
                IN /\ added \subseteq resync
                   /\ seen_track_ids' = written_seen \cup added
                   /\ known_artist_ids' = written_known \cup UnionArtists(added)
                   /\ added = {} => ~ev'.saved]_vars

\* a new watcher loaded a snapshot that a build of the watcher before it
\* wrote (track 2 is in no snapshot that was there at the beginning), and
\* the resync added tracks liked after the snapshot was written
C21_Witness ==
    /\ ev.type = "build_return"
    /\ ev.warm
    /\ ev.from_empty
    /\ ev.saved
    /\ 2 \in seen_track_ids
    /\ 2 \notin Range(ev.fetched)
    /\ Len(ev.fetched) = ResyncCount

\* the same, for the client that writes snapshots
InitTidal == InitIndex /\ service_name = "Tidal"

SpecRestartTidal == InitTidal /\ [][NextRestart]_vars

\* C22: every step of a watcher operation that changes known_artist_ids or
\* seen_track_ids leaves a cache file that is a snapshot of this user and
\* service and reads back as the two sets in memory, so that a watcher
\* constructed afterwards over the file starts from that state.
C22_CacheFollowsState ==
    [][(/\ ev'.type # "new_watcher"
        /\ \/ known_artist_ids' # known_artist_ids
           \/ seen_track_ids' # seen_track_ids)
       => /\ cache_file'.exists
          /\ cache_file'.user_id = UserId
          /\ cache_file'.service = service_name
          /\ Range(cache_file'.known_artist_ids) = known_artist_ids'
          /\ Range(cache_file'.seen_track_ids) = seen_track_ids']_vars

\* ---------------------------------------------------- the engine's rule list
RuleKinds == CustomRules \cup Range(DefaultRules)

engineUnchanged ==
    UNCHANGED <<liked, liked_before, enqueued, top_requests, observed, dry_run,
                service_name,
                min_artists,
                skip_known_artists, known_artists_scan_limit, use_cache,
                on_scrape_triggered, watcherVars, cache_file, frames, pc,
                processVars, runVars>>

\* add_rule (rules.py:145-152), called with a custom rule
AddRule(r) ==
    /\ pc = "idle"
    /\ Len(rules) < MaxRules
    /\ rules' = Append(rules, r)
    /\ ev' = [type |-> "add_rule", rule |-> r]
    /\ ClearLogs
    /\ engineUnchanged

RemoveAtFillsWithLast(rs, i) ==
    IF i = Len(rs) THEN SubSeq(rs, 1, Len(rs) - 1)
    ELSE [j \in 1..(Len(rs) - 1) |-> IF j = i THEN rs[Len(rs)] ELSE rs[j]]

\* the list without its element at index i
RemoveAt(rs, i) == SubSeq(rs, 1, i - 1) \o SubSeq(rs, i + 1, Len(rs))

\* remove_rule (rules.py:154-168): the first rule of that name goes
RemoveRule(r) ==
    /\ pc = "idle"
    /\ LET named == {i \in 1..Len(rules) :
                        RuleName(rules[i], min_artists) = RuleName(r, min_artists)}
       IN IF named = {}
          THEN /\ rules' = rules
               /\ ev' = [type |-> "remove_rule", rule |-> r, found |-> FALSE]
          ELSE /\ rules' = RemoveAt(rules, CHOOSE i \in named :
                                               \A j \in named : i <= j)
               /\ ev' = [type |-> "remove_rule", rule |-> r, found |-> TRUE]
    /\ ClearLogs
    /\ engineUnchanged

\* clear_rules (rules.py:170-172)
ClearRules ==
    /\ pc = "idle"
    /\ rules' = <<>>
    /\ ev' = [type |-> "clear_rules"]
    /\ ClearLogs
    /\ engineUnchanged

\* evaluate called with a context of track t and a known set (rules.py:182)
EvaluateCall(t, known) ==
    /\ pc = "idle"
    /\ ev' = [type |-> "evaluate", track |-> t, known |-> known,
              result |-> Evaluate(t, known, min_artists, skip_known_artists)]
    /\ ClearLogs
    /\ UNCHANGED rules
    /\ engineUnchanged

InitRules ==
    /\ SetupWith({DefaultScanLimit}, {NoFile})
    /\ observed = FALSE
    /\ service_name = "Tidal"
    /\ ~use_cache
    /\ on_scrape_triggered

NextRules ==
    \/ \E r \in CustomRules : AddRule(r)
    \/ \E r \in RuleKinds : RemoveRule(r)
    \/ ClearRules
    \/ \E t \in Tracks, known \in SUBSET Artists : EvaluateCall(t, known)

\* the engine alone: its rule list changed and evaluate called
SpecRules == InitRules /\ [][NextRules]_vars

\* the watcher with an engine to which rules are added
NextCustom ==
    \/ \E r \in CustomRules : AddRule(r)
    \/ \E t \in Tracks : Like(t)
    \/ \E t \in Tracks : ProcessNewTrack(t)
    \/ FetchTopTracks
    \/ Candidate
    \/ Finish
    \/ Callback

SpecCustom == InitRules /\ [][NextCustom]_vars

\* C23: evaluate goes through the rules in the order they were added and
\* stops at the first one that fails: the rules it evaluated are the list up
\* to and including that rule, the result has should_scrape false and no
\* artists to scrape, and its reason carries that rule's name and reason;
\* when no rule fails every rule was evaluated, in order.
C23_FirstFailureStops ==
    /\ [](ev.type = "evaluate"
          => LET f == FirstFailing(rules, ev.track, ev.known, min_artists,
                                   skip_known_artists)
                 r == ev.result
             IN IF f = 0
                THEN r.evaluated = rules
                ELSE /\ r.evaluated = SubSeq(rules, 1, f)
                     /\ ~r.should_scrape
                     /\ r.artists_to_scrape = <<>>
                     /\ r.reason.text = "rule failed"
                     /\ r.reason.rule = RuleName(rules[f], min_artists)
                     /\ r.reason.reason =
                            RuleReason(rules[f], ev.track, ev.known,
                                       min_artists, skip_known_artists))
    /\ [][ev'.type = "add_rule" => rules' = rules \o <<ev'.rule>>]_vars

\* a rule failed after an earlier one passed, and a rule after it that would
\* have failed too was not evaluated
C23_Witness ==
    /\ ev.type = "evaluate"
    /\ Len(rules) = 3
    /\ ev.result.evaluated = SubSeq(rules, 1, 2)
    /\ ~RulePasses(rules[3], ev.track, ev.known, min_artists, skip_known_artists)

\* C24: with the default rules, a track with fewer artists than min_artists
\* is rejected by the minimum-artists rule, the only rule evaluated, whatever
\* the known set is; and that rule passes, so that the next rule is
\* evaluated, exactly when the track has at least min_artists artists.
C24_MinimumArtists ==
    (ev.type = "evaluate" /\ rules = DefaultRules)
    => LET count == Len(TrackArtists(ev.track))
           r == ev.result
       IN /\ count < min_artists
             => /\ ~r.should_scrape
                /\ r.artists_to_scrape = <<>>
                /\ r.evaluated = <<"MinimumArtists">>
                /\ r.reason.text = "rule failed"
                /\ r.reason.rule = <<"MinimumArtists", ">=", min_artists>>
                /\ r.reason.reason = [text |-> "has only", count |-> count,
                                      min |-> min_artists]
          /\ count >= min_artists <=> r.evaluated = DefaultRules

\* a track below the minimum whose artist is known: the reason is still the
\* minimum-artists rule
C24_Witness ==
    /\ ev.type = "evaluate"
    /\ rules = DefaultRules
    /\ Len(TrackArtists(ev.track)) < min_artists
    /\ skip_known_artists
    /\ artist_ids(ev.track) \subseteq ev.known
    /\ ev.result.reason.rule[1] = "MinimumArtists"

\* C25: with the no-known-artists rule in the engine and skip_known_artists
\* true, a track with an artist in the known set is rejected; with the
\* default rules and the minimum-artists rule passed, the reason is the
\* no-known-artists rule's and lists the names of the track's artists that
\* are known, all of them and no other, in the track's order; with
\* skip_known_artists false the rule passes for every track and known set
\* and is never the rule that fails.
C25_NoKnownArtists ==
    (ev.type = "evaluate" /\ "NoKnownArtists" \in Range(rules))
    => LET t == ev.track
           r == ev.result
           overlap == artist_ids(t) \cap ev.known
           in_track == SelectSeq(TrackArtists(t), LAMBDA a : a \in ev.known)
       IN /\ (skip_known_artists /\ overlap # {}) => ~r.should_scrape
          /\ (/\ skip_known_artists
              /\ overlap # {}
              /\ rules = DefaultRules
              /\ Len(TrackArtists(t)) >= min_artists)
             => /\ r.reason.text = "rule failed"
                /\ r.reason.rule = <<"NoKnownArtists">>
                /\ r.reason.reason.text = "already known"
                /\ r.reason.reason.names =
                      [i \in 1..Len(in_track) |-> ArtistName(in_track[i])]
          /\ ~skip_known_artists
             => /\ RulePasses("NoKnownArtists", t, ev.known, min_artists,
                              skip_known_artists)
                /\ r.reason.text = "rule failed"
                   => r.reason.rule # <<"NoKnownArtists">>

\* one of the two artists of a collaboration is known, and the reason names
\* that one only
C25_Witness ==
    /\ ev.type = "evaluate"
    /\ rules = DefaultRules
    /\ skip_known_artists
    /\ Len(TrackArtists(ev.track)) = 2
    /\ min_artists = 2
    /\ ev.result.reason.text = "rule failed"
    /\ ev.result.reason.rule = <<"NoKnownArtists">>
    /\ Len(ev.result.reason.reason.names) = 1

\* C26: when every rule of the engine passes, artists_to_scrape is the
\* track's artists that are not in the known set, in the track's order, and
\* should_scrape is true exactly when there is one; whatever the rules do,
\* should_scrape true comes with a non-empty artists_to_scrape without any
\* known artist, and should_scrape false with an empty one.
C26_ArtistsToScrape ==
    ev.type = "evaluate"
    => LET t == ev.track
           r == ev.result
           unknown == SelectSeq(TrackArtists(t), LAMBDA a : a \notin ev.known)
       IN /\ FirstFailing(rules, t, ev.known, min_artists, skip_known_artists) = 0
             => /\ r.should_scrape <=> unknown # <<>>
                /\ r.artists_to_scrape = unknown
          /\ r.should_scrape
             => /\ r.artists_to_scrape # <<>>
                /\ Range(r.artists_to_scrape) \cap ev.known = {}
          /\ ~r.should_scrape => r.artists_to_scrape = <<>>

\* every rule passed for a collaboration whose first artist is known: only
\* the second is to be scraped
C26_Witness ==
    /\ ev.type = "evaluate"
    /\ rules = DefaultRules
    /\ ev.result.should_scrape
    /\ Len(TrackArtists(ev.track)) = 2
    /\ TrackArtists(ev.track)[1] \in ev.known
    /\ ev.result.artists_to_scrape = <<TrackArtists(ev.track)[2]>>

\* for track t in the current state, a custom rule whose predicate raises is
\* reached: every rule added before it is a built-in rule whose condition
\* holds or a custom rule whose predicate returns True
ReachesRaisingRule(t) ==
    \E i \in 1..Len(rules) :
       /\ rules[i] = "Raise"
       /\ \A j \in 1..(i - 1) :
             \/ rules[j] = "Pass"
             \/ rules[j] = "MinimumArtists"
                /\ Len(TrackArtists(t)) >= min_artists
             \/ rules[j] = "NoKnownArtists"
                /\ (skip_known_artists
                       => artist_ids(t) \cap known_artist_ids = {})

\* C27: a custom rule whose predicate raises counts as failed, with an error
\* reason, and nothing is raised: evaluate returns should_scrape false, and
\* process_new_track returns an empty list to its caller with the track
\* marked seen, no top tracks fetched and nothing queued.
C27_RaisingRuleFails ==
    [][\A t \in Tracks :
          (pc = "idle" /\ ReachesRaisingRule(t)
           /\ ev'.type \in {"process_return", "process_raise", "accept"}
           /\ ev'.track = t)
          => LET result == Evaluate(t, known_artist_ids, min_artists,
                                    skip_known_artists)
             IN /\ ~result.should_scrape
                /\ result.reason.text = "rule failed"
                /\ result.reason.rule = <<"Raise">>
                /\ result.reason.reason = [text |-> "evaluation error"]
                /\ result.artists_to_scrape = <<>>
                /\ ev'.type = "process_return"
                /\ ev'.value = <<>>
                /\ pc' = "idle"
                /\ t \in seen_track_ids'
                /\ top_calls' = <<>>
                /\ queue_calls' = <<>>
                /\ cb_calls' = <<>>]_vars

\* the first track processed passes both default rules and was rejected by
\* the raising rule
C27_Witness ==
    /\ ev.type = "process_return"
    /\ ev.value = <<>>
    /\ ev.track \in seen_track_ids
    /\ rules = <<"MinimumArtists", "NoKnownArtists", "Raise">>
    /\ Len(TrackArtists(ev.track)) >= min_artists
    /\ seen_track_ids = {ev.track}
    /\ known_artist_ids = artist_ids(ev.track)
    /\ ~ev.again

\* C28: add_to_queue returns a boolean to its caller and never raises, on
\* both clients and whatever goes wrong behind the call (no active device, a
\* refused call, a transport error, a missing queue call in the SDK): every
\* add_to_queue call the watcher made was answered true or false, and no
\* process_new_track was left by an exception of add_to_queue.
C28_AddToQueueNeverRaises ==
    /\ \A i \in 1..Len(queue_calls) :
          queue_calls[i].answer \in {"true", "false"}
    /\ ev.type = "process_raise" => ev.cause # "add_to_queue"

\* C29: a failing API call behind a fetch never crosses the port: no call of
\* get_all_liked_songs or get_recently_liked_songs (both built on
\* get_liked_songs) made by build_known_artists_index, start or
\* check_for_new_likes ends in an exception, on either backend, and no
\* process_new_track is left by an exception of get_artist_top_tracks.
C29_FetchNeverRaises ==
    /\ ev.type \notin {"build_raise", "start_raise", "check_raise"}
    /\ ev.type = "process_raise" => ev.cause # "get_artist_top_tracks"

\* ------------------------------------------------------------------ paging
MaxPages == 2

\* the values of max_tracks with which get_all_liked_songs is called
ScanSizes == {1, 2, PageSize, PageSize + 1, 2 * PageSize, DefaultScanLimit}

\* how many tracks the backend puts in a page at most: as many as asked for
\* (the client asks for batch_size), or fewer
PageCaps == {1, 2, PageSize - 1, PageSize}

\* the user likes n tracks in a row
LikeMany(n) ==
    /\ pc = "idle"
    /\ Len(liked) + n <= MaxPages * PageSize + MaxTracks
    /\ liked' = [i \in 1..n |-> Len(liked) + n + 1 - i] \o liked
    /\ ev' = [type |-> "like", track |-> Len(liked) + n]
    /\ ClearLogs
    /\ UNCHANGED <<enqueued, settingsVars, watcherVars, cache_file, frames, pc,
                   processVars, runVars>>

\* get_all_liked_songs(max_tracks) called on a backend that answers with
\* pages of at most cap tracks
GetAllLikedSongsCall(max_tracks, cap) ==
    /\ pc = "idle"
    /\ LET run == GetAllLikedSongsCapped(max_tracks, cap)
       IN ev' = [type |-> "get_all_liked_songs", max_tracks |-> max_tracks,
                 cap |-> cap, value |-> run.tracks, calls |-> run.calls]
    /\ ClearLogs
    /\ UNCHANGED <<liked, enqueued, settingsVars, watcherVars, cache_file,
                   frames, pc, processVars, runVars>>

InitPaging ==
    /\ SetupWith({DefaultScanLimit}, {NoFile})
    /\ observed = FALSE
    /\ ~use_cache
    /\ on_scrape_triggered

NextPaging ==
    \/ \E n \in {1, PageSize} : LikeMany(n)
    \/ \E max_tracks \in ScanSizes, cap \in PageCaps :
          GetAllLikedSongsCall(max_tracks, cap)

\* the port's get_all_liked_songs called on liked lists of up to MaxPages
\* full pages and a few tracks
SpecPaging == InitPaging /\ [][NextPaging]_vars

\* C30: get_all_liked_songs(max_tracks) ends after at most one
\* get_liked_songs call per batch_size tracks of max_tracks plus one, and
\* returns the first min(max_tracks, N) of the backend's N liked tracks in
\* the backend's order, none skipped, none twice, whatever the size of the
\* pages the backend returns.
C30_AllLikedSongs ==
    ev.type = "get_all_liked_songs"
    => /\ ev.value = Take(liked, ev.max_tracks)
       /\ ev.calls <= (ev.max_tracks + PageSize - 1) \div PageSize
       /\ ev.calls >= 1

\* ------------------------------------------------------------- single shot
\* one invocation begins: the shell constructs a watcher (main.py:230-234,
\* lambda_handler.py:143-148; watcher.py:46-49)
OnceBegin ==
    /\ pc = "idle"
    /\ frames = <<>>
    /\ known_artist_ids' = {}
    /\ seen_track_ids' = {}
    /\ running' = FALSE
    /\ last_poll_time' = NoTime
    /\ frames' = <<"once">>
    /\ pc' = "o_build"
    /\ ev' = [type |-> "once_begin"]
    /\ ClearLogs
    /\ UNCHANGED <<liked, enqueued, settingsVars, cache_file, processVars,
                   runVars>>

\* the invocation is over (main.py:247-256, lambda_handler.py:153-168)
OnceOver ==
    /\ frames' = <<>>
    /\ pc' = "idle"
    /\ liked_before' = Len(liked)
    /\ UNCHANGED top_requests
    /\ settingsKept

\* watcher.build_known_artists_index() (main.py:239, lambda_handler.py:151);
\* an exception ends the invocation (main.py:252, lambda_handler.py:164)
OnceBuild ==
    /\ pc = "o_build"
    /\ \E ans \in FetchAnswers(service_name, BuildFetch) :
          /\ BuildEffect(ans)
          /\ ev' = [type |-> IF ans.raised THEN "build_raise" ELSE "build_return",
                    warm |-> CacheLoads, fetched |-> ans.tracks,
                    saved |-> BuildOutcome(ans).save,
                    found |-> use_cache /\ cache_file.exists,
                    from_empty |-> known_artist_ids = {} /\ seen_track_ids = {}]
          /\ IF ans.raised THEN OnceOver
             ELSE pc' = "o_run" /\ UNCHANGED <<frames, settingsVars>>
    /\ ClearLogs
    /\ UNCHANGED <<liked, enqueued, running, last_poll_time, processVars,
                   runVars>>

\* watcher.run_once() (main.py:240, lambda_handler.py:152)
OnceRun ==
    /\ pc = "o_run"
    /\ RunOnceBegin

\* run_once has returned and the invocation ends
OnceEnd ==
    /\ pc = "o_exit"
    /\ OnceOver
    /\ ev' = [type |-> "once_end"]
    /\ ClearLogs
    /\ UNCHANGED <<liked, enqueued, watcherVars, cache_file, processVars,
                   runVars>>

\* the shell runs one invocation after the other, the user likes tracks in
\* between
NextOnce ==
    \/ \E t \in Tracks : Like(t)
    \/ OnceBegin
    \/ OnceBuild
    \/ OnceRun
    \/ RunCheck
    \/ RunLoop
    \/ RunExcept
    \/ FetchTopTracks
    \/ Candidate
    \/ Finish
    \/ Callback
    \/ OnceEnd

SpecOnce == Init /\ [][NextOnce]_vars

\* C31: in single-shot use, after an earlier invocation that ended with
\* some tracks liked, every track liked since that invocation ended that is
\* among the most recent likes is in the list of new tracks that run_once's
\* check_for_new_likes returns, that is in the list of tracks run_once
\* passes to process_new_track.
C31_SingleShotFindsNewLike ==
    [][(pc = "r_check" /\ frames = <<"once", "run_once">>
        /\ liked_before > 0
        /\ ev'.type = "check_return")
       => \A t \in Range(Take(liked, RecentPollCount)) :
             t > liked_before => t \in Range(new_tracks')]_vars

\* ----------------------------------------------------------------- dry run
\* the shell started with --dry-run, the backend's queue watched
InitDry ==
    /\ SetupIn({DefaultScanLimit}, {NoFile, OtherUserCache}, {TRUE})
    /\ observed = TRUE

\* single-shot invocations with --dry-run (main.py:213-245)
SpecDry == InitDry /\ [][NextOnce]_vars

\* C32: with --dry-run nothing that outlives the run changes: no step puts a
\* track in the backend's queue (the client's own add_to_queue is never
\* invoked) and no step changes the cache file.
C32_DryRunChangesNothing ==
    [][dry_run => enqueued' = enqueued /\ cache_file' = cache_file]_vars

\* ------------------------------------------------------ EventDrivenWatcher
\* EventDrivenWatcher.initialize (watcher.py:352-354): the inner watcher's
\* build_known_artists_index, its return value dropped
Initialize == BuildKnownArtistsIndex

OnTrackLikedRejects(t) ==
    /\ pc = "idle"
    /\ t \in Range(liked)
    /\ ClearLogs
    /\ seen_track_ids' = RejectUpdate(known_artist_ids, seen_track_ids, t).seen
    /\ known_artist_ids' = RejectUpdate(known_artist_ids, seen_track_ids, t).known
    /\ ProcessReturn(t, <<>>)
    /\ UNCHANGED <<liked, enqueued, settingsVars, running, last_poll_time,
                   cache_file>>

\* EventDrivenWatcher.on_track_liked (watcher.py:356-365): the inner
\* watcher's process_new_track, its return value handed on
OnTrackLiked(t) == ProcessNewTrack(t)

\* EventDrivenWatcher constructs its watcher without a callback
\* (watcher.py:346-350)
InitEvent == Init /\ ~on_scrape_triggered

\* an EventDrivenWatcher driven by a shell, the user liking tracks
NextEvent ==
    \/ \E t \in Tracks : Like(t)
    \/ Initialize
    \/ \E t \in Tracks : OnTrackLiked(t)
    \/ FetchTopTracks
    \/ Candidate
    \/ Finish

SpecEvent == InitEvent /\ [][NextEvent]_vars

\* the same calls made on a LikedSongsWatcher
NextDirect ==
    \/ \E t \in Tracks : Like(t)
    \/ BuildKnownArtistsIndex
    \/ \E t \in Tracks : ProcessNewTrack(t)
    \/ FetchTopTracks
    \/ Candidate
    \/ Finish

C34_KnownArtistsComeFromSeenTracks ==
    \A a \in known_artist_ids :
       \E t \in seen_track_ids : a \in artist_ids(t)

\* a warm index build has returned with several tracks seen and artists
\* known
C34_Witness ==
    /\ ev.type = "build_return"
    /\ ev.warm
    /\ Cardinality(seen_track_ids) >= 2
    /\ Cardinality(known_artist_ids) >= 2
    /\ 1 \in known_artist_ids

\* ----------------------------------------------------------------- startup
\* the index built and the liked list polled, for every scan limit
NextStartup == NextIndex \/ CheckForNewLikes

SpecStartup == InitIndex /\ [][NextStartup]_vars

\* the build that has just returned got the backend's answer to its fetch
\* (watcher.py:126, 143-145), not the empty list of a failed call
BuildAnswered ==
    /\ ev.type = "build_return"
    /\ ev.fetched = IF ev.warm THEN GetRecentlyLikedSongs(ResyncCount)
                    ELSE GetAllLikedSongs(known_artists_scan_limit)

\* C35: a check_for_new_likes that follows a returned index build (cold or
\* warm, whatever the scan limit) with the liked list unchanged, and that
\* the backend answers, returns an empty list: no track liked before startup
\* is taken for a new like.
C35_NothingNewAfterBuild ==
    [][(BuildAnswered /\ ev'.type = "check_return"
        /\ ev'.response = GetRecentlyLikedSongs(RecentPollCount))
       => ev'.value = <<>>]_vars

\* C36: run_once passes the new tracks of its poll to process_new_track one
\* after the other in the order of the list, each evaluated against the sets
\* as the tracks before it left them; it appends each returned list to its
\* result and returns that; and add_to_queue is never called for a candidate
\* that is itself one of the new tracks of the batch.
C36_BatchInOrder ==
    [][/\ \A t \in Tracks :
             (pc = "r_loop" /\ BeginsProcess(t))
             => /\ ti <= Len(new_tracks) /\ t = new_tracks[ti]
                /\ (ev'.type = "accept") =
                      Evaluate(t, known_artist_ids, min_artists,
                               skip_known_artists).should_scrape
       /\ (InRunOnce /\ ev'.type = "process_return")
             => all_queued' = all_queued \o ev'.value /\ ti' = ti + 1
       /\ (InRunOnce /\ ev'.type = "run_once_return")
             => ev'.value = all_queued
       /\ (InRunOnce /\ Len(queue_calls') > Len(queue_calls))
             => queue_calls'[Len(queue_calls')].track \notin Range(new_tracks)
      ]_vars

\* C37: add_rule puts the rule at the end of the list and leaves the rules
\* before it as they were; remove_rule(name) with a rule of that name in the
\* list returns true and leaves the list without the first rule of that
\* name, the others in their order; with no rule of that name it returns
\* false and leaves the list as it was; neither touches anything else.
C37_AddAndRemoveRules ==
    [][/\ ev'.type = "add_rule"
          => /\ Len(rules') = Len(rules) + 1
             /\ rules'[Len(rules')] = ev'.rule
             /\ \A i \in 1..Len(rules) : rules'[i] = rules[i]
       /\ ev'.type = "remove_rule"
          => IF \E i \in 1..Len(rules) : rules[i] = ev'.rule
             THEN /\ ev'.found
                  /\ Len(rules') = Len(rules) - 1
                  /\ \E i \in 1..Len(rules) :
                        /\ rules[i] = ev'.rule
                        /\ \A j \in 1..(i - 1) :
                              rules[j] # ev'.rule /\ rules'[j] = rules[j]
                        /\ \A j \in (i + 1)..Len(rules) :
                              rules'[j - 1] = rules[j]
             ELSE ~ev'.found /\ rules' = rules
       /\ ev'.type \in {"add_rule", "remove_rule"}
          => UNCHANGED <<known_artist_ids, seen_track_ids, cache_file, liked,
                         min_artists, skip_known_artists>>]_vars

\* the first of two rules of the same name was removed, a rule between
\* them kept its place before the second
C37_Witness ==
    /\ ev.type = "remove_rule"
    /\ ev.found
    /\ Len(rules) = 2
    /\ rules[2] = ev.rule
    /\ rules[1] # ev.rule

\* C38: a process_new_track call that ends with an exception of rule
\* evaluation, get_artist_top_tracks or add_to_queue leaves seen_track_ids,
\* known_artist_ids and the cache file as they were before the call: no step
\* of an accepted track's scrape up to and including such an exception
\* changes them; and a check_for_new_likes that follows the exception and is
\* answered by the backend returns the track as new.
C38_FailureAtomicity ==
    [][/\ (\/ ev'.type \in {"accept", "top_tracks", "skip", "add_to_queue"}
           \/ ev'.type = "process_raise" /\ ev'.cause # "callback")
          => UNCHANGED <<seen_track_ids, known_artist_ids, cache_file>>
       /\ (/\ ev.type = "process_raise" /\ ev.cause # "callback"
           /\ ev'.type = "check_return"
           /\ ev'.response = GetRecentlyLikedSongs(RecentPollCount))
          => ev.track \in Range(ev'.value)]_vars

\* add_to_queue has raised after an earlier candidate of the same track was
\* queued, and the track is still unseen
C38_Witness ==
    /\ ev.type = "process_raise"
    /\ ev.cause = "add_to_queue"
    /\ Len(queue_calls) >= 2
    /\ queue_calls[1].answer = "true"
    /\ ev.track \notin seen_track_ids
    /\ ~(artist_ids(ev.track) \subseteq known_artist_ids)

\* C39: over the lifetime of one watcher, whatever fails in its polls,
\* get_artist_top_tracks is never called for an artist it was called for
\* before, and never for an artist that is in known_artist_ids at the time
\* of the call.
C39_TopTracksOncePerArtist ==
    [][ev'.type = "top_tracks"
       => /\ ev'.artist \notin top_requests
          /\ ev'.artist \notin known_artist_ids]_vars
====
